---- MODULE Spec2Model ----
(***************************************************************************)
(* Night Owls (src/app.py): the session state of the Shiny server, its     *)
(* reactive handlers and the points engine they call.                      *)
(*                                                                         *)
(* Numbers.  Renown, Notoriety and the gains are Python floats with two    *)
(* decimals; they are held here in hundredths of a point ("cents"), so     *)
(* 9.00 is 900.  Multipliers are held in hundredths as well (1.08 is 108). *)
(* Sums are exact decimal sums; binary floating-point error is not         *)
(* modelled.                                                               *)
(*                                                                         *)
(* Left out: state that only drives the presentation (ward_focus,          *)
(* show_renown, show_notor, last_angle) and the row columns the program    *)
(* never reads back (timestamp, ward, EI_breakdown, notes).                *)
(***************************************************************************)
EXTENDS Integers, Sequences, FiniteSets, TLC

\* ------------------------------------------------------------ bounds ----
\* Most rows the in-session ledger holds before an appending handler is no
\* longer taken.
MaxLedger == 2
\* Most data rows the worksheet holds.
MaxSheet == 2
\* The scoring functions are evaluated on totals up to MaxTotal points,
MaxTotal == 32
\* base impacts 0..MaxBI, result buckets -MaxEB..MaxEB, Ops modifiers
\* -MaxOps..MaxOps,
MaxBI == 5
MaxEB == 1
MaxOps == 2
\* levels up to MaxLevel, base scores 0..MaxBase, rolls RollMargin beyond
\* either end of the slider,
MaxLevel == 7
MaxBase == 8
RollMargin == 10
\* category bases up to MaxCat, exposure indices up to MaxEI and standing
\* totals up to MaxHeat points.
MaxCat == 3
MaxEI == 4
MaxHeat == 25

\* Python's None, and a present value: an optional value is a sequence of
\* at most one element.
None == <<>>
Some(v) == <<v>>

Max(a, b) == IF a >= b THEN a ELSE b
Min(a, b) == IF a <= b THEN a ELSE b

\* ------------------------------------------------------ points engine ----
NOTORIETY_THRESH == <<5, 10, 15, 20, 25, 30>>
RENOWN_THRESH == <<5, 10, 15, 20, 25, 30>>

Arcs == {"Help the Poor", "Sabotage Evil", "Expose Corruption"}

\* current_tier: the count of leading thresholds met; total is in cents.
RECURSIVE TierFrom(_, _, _)
TierFrom(total, thresholds, i) ==
    IF i > Len(thresholds) THEN 0
    ELSE IF total >= 100 * thresholds[i] THEN 1 + TierFrom(total, thresholds, i + 1)
    ELSE 0

\* current_tier as it would be if a threshold counted only once exceeded.
current_tier_strict(total, thresholds) ==
    Cardinality({i \in 1..Len(thresholds) :
                    \A j \in 1..i : total > 100 * thresholds[j]})

current_tier(total, thresholds) == TierFrom(total, thresholds, 1)

clamp(v, lo, hi) == Max(lo, Min(hi, v))

\* heat_multiplier, in hundredths; n is in cents.
heat_multiplier(n) == IF n >= 2000 THEN 150 ELSE (IF n >= 1000 THEN 125 ELSE 100)

low_or_high(n) == IF n >= 1000 THEN "High" ELSE "Low"

\* dict.get(key, default) on the inputs of compute_BI.
Get(inputs, key, default) == IF key \in DOMAIN inputs THEN inputs[key] ELSE default

compute_BI(arc, inputs) ==
    IF arc = "Help the Poor"
    THEN LET spend == Get(inputs, "spend", 0)
         IN  IF spend < 25 THEN 1
             ELSE IF spend < 50 THEN 2
             ELSE IF spend < 100 THEN 3
             ELSE IF spend < 200 THEN 4
             ELSE 5
    ELSE IF arc = "Sabotage Evil" THEN Get(inputs, "impact_level", 1)
    ELSE Get(inputs, "expose_level", 1)

\* sum(OQM_list)
RECURSIVE SumList(_)
SumList(list) == IF list = <<>> THEN 0 ELSE list[1] + SumList(Tail(list))

\* compute_base_score as it would be without the clamp of the Ops sum.
compute_base_score_raw_ops(BI, EB, OQM_list) ==
    clamp(BI + EB + SumList(OQM_list), 1, 7)

compute_base_score(BI, EB, OQM_list) ==
    clamp(BI + EB + clamp(SumList(OQM_list), -2, 2), 1, 7)

\* The multipliers 1.0, 1.5, 2.0 of renown_from_score, in halves.
ScoreMultHalves(arc) ==
    CASE arc = "Help the Poor" -> 2
      [] arc = "Sabotage Evil" -> 3
      [] arc = "Expose Corruption" -> 4

\* Python's round() of a number of halves: to the nearest integer, a half
\* going to the even neighbour.
RoundHalves(h) ==
    LET q == h \div 2
    IN  IF h % 2 = 0 THEN q
        ELSE IF q % 2 = 0 THEN q ELSE q + 1

\* int(round(base * mult))
renown_from_score(base, arc) == RoundHalves(base * ScoreMultHalves(arc))

\* math.ceil(x / 100)
CeilHundredths(x) == -((-x) \div 100)

\* notoriety_gain as it would be if the result were not floored at 0.
notoriety_gain_unfloored(cat_base, EI, n) ==
    CeilHundredths((cat_base + Max(0, EI - 1)) * heat_multiplier(n))

\* notoriety_gain; n is in cents, the result in points.
notoriety_gain(cat_base, EI, n) ==
    Max(0, CeilHundredths((cat_base + Max(0, EI - 1)) * heat_multiplier(n)))

\* RENOWN_ARC_MULT.get(arc, 1.0) and RISK_ARC_MULT.get(arc, 1.0), hundredths.
RENOWN_ARC_MULT(arc) ==
    CASE arc = "Help the Poor" -> 100
      [] arc = "Sabotage Evil" -> 115
      [] arc = "Expose Corruption" -> 130
      [] OTHER -> 100

RISK_ARC_MULT(arc) ==
    CASE arc = "Help the Poor" -> 80
      [] arc = "Sabotage Evil" -> 110
      [] arc = "Expose Corruption" -> 130
      [] OTHER -> 100

\* math.log1p(num / den) in units of 10^-8, tabulated for the gold amounts of
\* MissionInputs and the denominators 80 + 12*M and 50 + 10*M, M in 0..6.
Log1pE8(num, den) ==
    CASE num = 0 -> 0
      [] num = 40 /\ den = 80 -> 40546511
      [] num = 40 /\ den = 92 -> 36101335
      [] num = 40 /\ den = 104 -> 32542240
      [] num = 40 /\ den = 116 -> 29626582
      [] num = 40 /\ den = 128 -> 27193372
      [] num = 40 /\ den = 140 -> 25131443
      [] num = 40 /\ den = 152 -> 23361485
      [] num = 40 /\ den = 50 -> 58778666
      [] num = 40 /\ den = 60 -> 51082562
      [] num = 40 /\ den = 70 -> 45198512
      [] num = 40 /\ den = 90 -> 36772478
      [] num = 40 /\ den = 100 -> 33647224
      [] num = 40 /\ den = 110 -> 31015493
      [] num = 8000 /\ den = 80 -> 461512052
      [] num = 8000 /\ den = 92 -> 447684262
      [] num = 8000 /\ den = 104 -> 435572215
      [] num = 8000 /\ den = 116 -> 424800251
      [] num = 8000 /\ den = 128 -> 415103991
      [] num = 8000 /\ den = 140 -> 406290304
      [] num = 8000 /\ den = 152 -> 398213805
      [] num = 8000 /\ den = 50 -> 508140436
      [] num = 8000 /\ den = 60 -> 490032427
      [] num = 8000 /\ den = 70 -> 474741352
      [] num = 8000 /\ den = 90 -> 449857434
      [] num = 8000 /\ den = 100 -> 439444915
      [] num = 8000 /\ den = 110 -> 430037278

\* The products of the engine exceed 32 bits: they are held as sequences of
\* base-10000 digits, least significant first.
BigOf(n) == <<n % 10000, (n \div 10000) % 10000, n \div 100000000>>

RECURSIVE BigMulCarry(_, _, _)
BigMulCarry(a, k, carry) ==
    IF a = <<>> THEN (IF carry = 0 THEN <<>> ELSE <<carry>>)
    ELSE LET t == Head(a) * k + carry
         IN  <<t % 10000>> \o BigMulCarry(Tail(a), k, t \div 10000)

BigMul(a, k) == BigMulCarry(a, k, 0)

\* The digits of a from the i-th on, as a number: a \div 10000^(i-1).
RECURSIVE BigHigh(_, _)
BigHigh(a, i) ==
    IF i > Len(a) THEN 0 ELSE a[i] + 10000 * BigHigh(a, i + 1)

BigLowNonZero(a, k) == \E i \in 1..Min(k, Len(a)) : a[i] # 0

\* round(max(0.0, pts), 2) in cents, where pts is crit cents more than
\* big / (10^12 * div) thousandths of a cent; a half is rounded to even.
RoundPts(big, div, crit) ==
    LET hi == BigHigh(big, 4)
        milli == hi \div div + 1000 * crit
        q == milli \div 1000
        r == milli % 1000
        rest == hi % div # 0 \/ BigLowNonZero(big, 3)
        up == r > 500 \/ (r = 500 /\ (rest \/ q % 2 = 1))
    IN  IF milli < 0 THEN 0 ELSE IF up THEN q + 1 ELSE q

\* `impact or 3`, `exposure or 3`.
OrThree(v) == IF v = None \/ v = Some(0) THEN 3 ELSE v[1]

renown_points_from(gold, missions, arc, impact, exposure, oqm, eb, nat20, nat1) ==
    LET log == Log1pE8(Max(0, gold), 50 + 10 * Max(0, missions))
        oqm_mult == 100 + 3 * oqm
        eb_mult == 100 + 4 * eb
        eff_mult == IF arc = "Sabotage Evil" THEN 100 + 7 * (OrThree(impact) - 3)
                    ELSE IF arc = "Expose Corruption" THEN 100 + 10 * (OrThree(exposure) - 3)
                    ELSE 100
        \* base = 2.0 * log; the product is big / 10^17 points, that is
        \* big / 10^12 thousandths of a cent
        big == BigMul(BigMul(BigMul(BigOf(log), 20 * RENOWN_ARC_MULT(arc)),
                   oqm_mult * eb_mult), eff_mult)
        crit == (IF nat20 THEN 50 ELSE 0) - (IF nat1 THEN 30 ELSE 0)
    IN  RoundPts(big, 1, crit)

\* heat_scale as it would be with the stepped multiplier of heat_multiplier.
heat_scale_stepped(current_notor_total) == heat_multiplier(current_notor_total)

\* heat_scale = 1.0 + 0.08 * tier, in hundredths.
heat_scale(current_notor_total) ==
    100 + 8 * current_tier(current_notor_total, NOTORIETY_THRESH)

\* notoriety_points_from with the heat scale passed in.
NotorietyPointsScaled(gold, missions, arc, impact, exposure, oqm, eb, scale, nat20, nat1) ==
    LET log == Log1pE8(Max(0, gold), 80 + 12 * Max(0, missions))
        oqm_mult == Max(85, 100 - 3 * oqm)
        eb_mult == Max(80, 100 - 3 * eb)
        eff_mult == IF arc = "Sabotage Evil" THEN 100 + 9 * (OrThree(impact) - 3)
                    ELSE IF arc = "Expose Corruption" THEN 100 + 12 * (OrThree(exposure) - 3)
                    ELSE 100
        \* base = 1.6 * log; the product is big / 10^19 points, that is
        \* big / 10^14 thousandths of a cent
        big == BigMul(BigMul(BigMul(BigOf(log), 16 * RISK_ARC_MULT(arc)),
                   scale * oqm_mult), eb_mult * eff_mult)
        crit == (IF nat1 THEN 50 ELSE 0) - (IF nat20 THEN 30 ELSE 0)
    IN  RoundPts(big, 100, crit)

notoriety_points_from(gold, missions, arc, impact, exposure, oqm, eb, current_notor_total, nat20, nat1) ==
    NotorietyPointsScaled(gold, missions, arc, impact, exposure, oqm, eb,
                          heat_scale(current_notor_total), nat20, nat1)

\* ------------------------------------------------------ mission inputs ----
\* The values of the Mission Generator inputs when Queue arrives.
DefaultInputs ==
    [arc |-> "Help the Poor", spend |-> 40, plan_help |-> TRUE,
     impact |-> 3, plan_sab |-> FALSE, rushed |-> FALSE,
     expose |-> 3, proof |-> FALSE, reused |-> FALSE,
     roll |-> 15, nat20 |-> FALSE, nat1 |-> FALSE]

MissionInputs ==
    { [DefaultInputs EXCEPT !.spend = 8000],
      [DefaultInputs EXCEPT !.arc = "Expose Corruption", !.spend = 8000,
                            !.reused = TRUE, !.roll = 30],
      [DefaultInputs EXCEPT !.arc = "Expose Corruption", !.spend = 8000,
                            !.expose = 5, !.reused = TRUE, !.roll = 0,
                            !.nat1 = TRUE] }

B2I(b) == IF b THEN 1 ELSE 0

\* The net Ops modifier of the archetype's checkboxes (+1 / -1 each),
\* clamped to [-2, +2].
oqm_from_inputs(arc, input) ==
    clamp(CASE arc = "Help the Poor" -> B2I(input.plan_help)
            [] arc = "Sabotage Evil" -> B2I(input.plan_sab) - B2I(input.rushed)
            [] OTHER -> B2I(input.proof) - B2I(input.reused),
          -2, 2)

\* _eb_from_roll as it would be without the clamp to -3..+3.
_eb_from_roll_unclamped(roll, nat20) ==
    IF nat20 THEN 3 ELSE (2 * (roll - 15) + 5) \div 10

\* int(round((roll - 15) / 5)) clamped to -3..+3; (roll - 15) / 5 is never
\* half-way between two integers.
_eb_from_roll(roll, nat20) ==
    IF nat20 THEN 3 ELSE Max(-3, Min(3, (2 * (roll - 15) + 5) \div 10))

_arc_params(input) ==
    [arc |-> input.arc,
     gold |-> input.spend,
     eb |-> _eb_from_roll(input.roll, input.nat20),
     impact |-> IF input.arc = "Sabotage Evil" THEN Some(input.impact) ELSE None,
     exposure |-> IF input.arc = "Expose Corruption" THEN Some(input.expose) ELSE None,
     oqm |-> oqm_from_inputs(input.arc, input)]

\* ---------------------------------------------------------------- rows ----
\* A cell of the columns BI, EB, OQM: the text "-" or a number.
Dash == <<>>
Num(n) == <<n>>

\* The complication column of a row that is no Complication.
NoText == ""

Row(archetype, eb, oqm, rg, ng, complication) ==
    [archetype |-> archetype, BI |-> Dash, EB |-> eb, OQM |-> oqm,
     renown_gain |-> rg, notoriety_gain |-> ng, complication |-> complication]

RECURSIVE SumOf(_, _)
SumOf(rows, col) ==
    IF rows = <<>> THEN 0 ELSE rows[1][col] + SumOf(Tail(rows), col)

mission_count(df) == Cardinality({i \in 1..Len(df) : df[i].archetype \in Arcs})

\* ------------------------------------------------------- option tables ----
\* The option lists of assets/complications_low.json and
\* assets/complications_high.json.
LOW_TABLE == <<"Low 1", "Low 2">>
HIGH_TABLE == <<"High 1">>

\* wheel_ui's _safe_opts: the table of the heat band, or twelve placeholders
\* when it is empty.
_safe_opts(n) ==
    LET data == IF n >= 1000 THEN HIGH_TABLE ELSE LOW_TABLE
    IN  IF data # <<>> THEN data
        ELSE <<"Complication 1", "Complication 2", "Complication 3", "Complication 4",
               "Complication 5", "Complication 6", "Complication 7", "Complication 8",
               "Complication 9", "Complication 10", "Complication 11", "Complication 12">>

\* --------------------------------------------------------------- state ----
VARIABLES
    renown,          \* reactive.Value, cents
    notoriety,       \* reactive.Value, cents
    ledger_df,       \* the in-session ledger, a sequence of rows
    queued_mission,  \* None or Some(dict)
    selected_index,  \* None or Some(idx)
    wheel_options,   \* list of option texts
    spin_token,      \* None or Some("ts"): only its truth value is ever read
    sheet,           \* the data rows of the worksheet
    sheets_up,       \* SHEET_ID and GCP_SA_JSON are set and the sheet answers
    wheel_visible,   \* the Wheel of Fortune tab is the one shown
    lastOp,          \* the handler that ran last ("ReloadFailed": _reload
                     \* on an error); for Spin, whether the delivery
                     \* repeated the click before it
    call             \* the last evaluation of a module-level scoring function:
                     \* its name, arguments and result

vars == <<renown, notoriety, ledger_df, queued_mission, selected_index,
          wheel_options, spin_token, sheet, sheets_up, wheel_visible, lastOp,
          call>>

Op(name, retry) == [name |-> name, retry |-> retry]

\* The server's handlers evaluate none of the module-level scoring functions
\* compute_BI, compute_base_score, renown_from_score and notoriety_gain.
NoCall == [fn |-> "none", args |-> <<>>, result |-> 0]

\* The bootstrap leaves the session empty: without the sheet it returns at
\* once, and with an empty sheet it sets nothing (a non-empty sheet makes
\* _bootstrap_from_sheets raise NameError and the app does not start).
\* Whether the sheet is configured and answers is fixed for the session.
Init ==
    /\ renown = 0
    /\ notoriety = 0
    /\ ledger_df = <<>>
    /\ queued_mission = None
    /\ selected_index = None
    /\ wheel_options = <<>>
    /\ spin_token = None
    /\ sheet = <<>>
    /\ sheets_up \in BOOLEAN
    /\ wheel_visible = FALSE
    /\ lastOp = Op("Init", FALSE)
    /\ call = NoCall

\* ------------------------------------------------------- Google Sheets ----
\* append_rows_to_sheet: the rows reach the worksheet, or the call returns
\* the error and the worksheet is as before.
append_rows_to_sheet(rows) ==
    IF sheets_up
    THEN /\ Len(sheet) + Len(rows) <= MaxSheet
         /\ sheet' = sheet \o rows
    ELSE sheet' = sheet

\* pd.to_numeric(errors="coerce").fillna(0) on a cell of BI, EB, OQM.
ToNumeric(cell) == IF cell = Dash THEN Num(0) ELSE cell

\* load_ledger_from_sheet on success: the data rows with the numeric
\* columns coerced.
load_ledger_from_sheet ==
    [i \in 1..Len(sheet) |->
        [sheet[i] EXCEPT !.BI = ToNumeric(@), !.EB = ToNumeric(@), !.OQM = ToNumeric(@)]]

\* int(x) for x in cents: truncation toward zero, in cents.
IntOf(c) == IF c >= 0 THEN 100 * (c \div 100) ELSE -(100 * ((-c) \div 100))

\* wheel_ui re-renders in the flush of every handler while its tab is shown.
WheelAfter(n) == IF wheel_visible THEN _safe_opts(n) ELSE wheel_options

\* ------------------------------------------------------------ handlers ----
\* _lie_low as it would be if it always dropped a single point.
_lie_low_single_point ==
    LET row == Row("Adjustment: Lie Low", Dash, Dash, 0, -100, NoText)
    IN  /\ Len(ledger_df) < MaxLedger
        /\ notoriety' = Max(0, notoriety - 100)
        /\ ledger_df' = Append(ledger_df, row)
        /\ append_rows_to_sheet(<<row>>)
        /\ wheel_options' = WheelAfter(notoriety')
        /\ lastOp' = Op("LieLow", FALSE)
        /\ UNCHANGED <<renown, queued_mission, selected_index, spin_token,
                       sheets_up, wheel_visible, call>>

_lie_low ==
    LET drop == IF notoriety >= 1000 THEN 2 ELSE 1
        row == Row("Adjustment: Lie Low", Dash, Dash, 0, -(100 * drop), NoText)
    IN  /\ Len(ledger_df) < MaxLedger
        /\ notoriety' = Max(0, notoriety - 100 * drop)
        /\ ledger_df' = Append(ledger_df, row)
        /\ append_rows_to_sheet(<<row>>)
        /\ wheel_options' = WheelAfter(notoriety')
        /\ lastOp' = Op("LieLow", FALSE)
        /\ UNCHANGED <<renown, queued_mission, selected_index, spin_token,
                       sheets_up, wheel_visible, call>>

_proxy_charity ==
    LET row == Row("Adjustment: Proxy Charity", Dash, Dash, 0, -100, NoText)
    IN  /\ Len(ledger_df) < MaxLedger
        /\ notoriety' = Max(0, notoriety - 100)
        /\ ledger_df' = Append(ledger_df, row)
        /\ append_rows_to_sheet(<<row>>)
        /\ wheel_options' = WheelAfter(notoriety')
        /\ lastOp' = Op("ProxyCharity", FALSE)
        /\ UNCHANGED <<renown, queued_mission, selected_index, spin_token,
                       sheets_up, wheel_visible, call>>

\* Queue: no sheet call; the gains are computed from the inputs, the mission
\* count of the ledger and the Notoriety total of the moment.
_queue ==
    \E input \in MissionInputs :
        LET a == _arc_params(input)
            M == mission_count(ledger_df)
            rp == renown_points_from(a.gold, M, a.arc, a.impact, a.exposure,
                                     a.oqm, a.eb, input.nat20, input.nat1)
            np == notoriety_points_from(a.gold, M, a.arc, a.impact, a.exposure,
                                        a.oqm, a.eb, notoriety, input.nat20, input.nat1)
        IN  /\ queued_mission' =
                   Some([archetype |-> a.arc, EB |-> a.eb, OQM |-> a.oqm,
                         renown_gain |-> rp, notoriety_gain |-> np,
                         EI_breakdown |-> [gold |-> a.gold, missions_so_far |-> M,
                                           impact |-> a.impact, exposure |-> a.exposure]])
            /\ lastOp' = Op("Queue", FALSE)
            /\ UNCHANGED <<renown, notoriety, ledger_df, selected_index, wheel_options,
                           spin_token, sheet, sheets_up, wheel_visible, call>>

\* _apply as it would be if the totals were only touched once the sheet has
\* taken the row.
_apply_totals_when_synced ==
    /\ ~wheel_visible
    /\ IF queued_mission = None
       THEN /\ lastOp' = Op("Apply", FALSE)
            /\ UNCHANGED <<renown, notoriety, ledger_df, queued_mission, selected_index,
                           wheel_options, spin_token, sheet, sheets_up, wheel_visible, call>>
       ELSE LET q == queued_mission[1]
                row == Row(q.archetype, Num(q.EB), Num(q.OQM),
                           q.renown_gain, q.notoriety_gain, NoText)
            IN  /\ Len(ledger_df) < MaxLedger
                /\ renown' = IF sheets_up THEN renown + q.renown_gain ELSE renown
                /\ notoriety' = IF sheets_up THEN notoriety + q.notoriety_gain ELSE notoriety
                /\ ledger_df' = Append(ledger_df, row)
                /\ append_rows_to_sheet(<<row>>)
                /\ queued_mission' = None
                /\ wheel_options' = WheelAfter(notoriety')
                /\ lastOp' = Op("Apply", FALSE)
                /\ UNCHANGED <<selected_index, spin_token, sheets_up, wheel_visible, call>>

\* _apply as it would be if the queue were not cleared.
_apply_keeps_queue ==
    /\ ~wheel_visible
    /\ IF queued_mission = None
       THEN /\ lastOp' = Op("Apply", FALSE)
            /\ UNCHANGED <<renown, notoriety, ledger_df, queued_mission, selected_index,
                           wheel_options, spin_token, sheet, sheets_up, wheel_visible, call>>
       ELSE LET q == queued_mission[1]
                row == Row(q.archetype, Num(q.EB), Num(q.OQM),
                           q.renown_gain, q.notoriety_gain, NoText)
            IN  /\ Len(ledger_df) < MaxLedger
                /\ renown' = renown + q.renown_gain
                /\ notoriety' = notoriety + q.notoriety_gain
                /\ ledger_df' = Append(ledger_df, row)
                /\ append_rows_to_sheet(<<row>>)
                /\ wheel_options' = WheelAfter(notoriety')
                /\ lastOp' = Op("Apply", FALSE)
                /\ UNCHANGED <<queued_mission, selected_index, spin_token, sheets_up,
                               wheel_visible, call>>

\* Apply sits on the Resolve & Log tab.  Without a queued mission it returns
\* at once.
_apply ==
    /\ ~wheel_visible
    /\ IF queued_mission = None
       THEN /\ lastOp' = Op("Apply", FALSE)
            /\ UNCHANGED <<renown, notoriety, ledger_df, queued_mission, selected_index,
                           wheel_options, spin_token, sheet, sheets_up, wheel_visible, call>>
       ELSE LET q == queued_mission[1]
                row == Row(q.archetype, Num(q.EB), Num(q.OQM),
                           q.renown_gain, q.notoriety_gain, NoText)
            IN  /\ Len(ledger_df) < MaxLedger
                /\ renown' = renown + q.renown_gain
                /\ notoriety' = notoriety + q.notoriety_gain
                /\ ledger_df' = Append(ledger_df, row)
                /\ append_rows_to_sheet(<<row>>)
                /\ queued_mission' = None
                /\ wheel_options' = WheelAfter(notoriety')
                /\ lastOp' = Op("Apply", FALSE)
                /\ UNCHANGED <<selected_index, spin_token, sheets_up, wheel_visible, call>>

\* Append All sits on the Resolve & Log tab: every ledger row is sent again.
_append_all ==
    /\ ~wheel_visible
    /\ append_rows_to_sheet(ledger_df)
    /\ lastOp' = Op("AppendAll", FALSE)
    /\ UNCHANGED <<renown, notoriety, ledger_df, queued_mission, selected_index,
                   wheel_options, spin_token, sheets_up, wheel_visible, call>>

\* _spin as it would be if the journal line took the first option instead of
\* the drawn one.
_spin_logs_first ==
    /\ wheel_visible
    /\ wheel_options # <<>>
    /\ Len(ledger_df) < MaxLedger
    /\ \E idx \in 0..(Len(wheel_options) - 1), retry \in BOOLEAN :
        LET row == Row("Complication", Dash, Dash, 0, 0, wheel_options[1])
        IN  /\ retry => lastOp.name = "Spin"
            /\ selected_index' = Some(idx)
            /\ spin_token' = Some("ts")
            /\ ledger_df' = Append(ledger_df, row)
            /\ wheel_options' = WheelAfter(notoriety)
            /\ lastOp' = Op("Spin", retry)
    /\ UNCHANGED <<renown, notoriety, queued_mission, sheet, sheets_up, wheel_visible, call>>

\* SPIN! is rendered by wheel_ui, on the Wheel of Fortune tab.  retry marks
\* a delivery that repeats the click before it (a double click, a resend);
\* the handler has no way to tell.
_spin ==
    /\ wheel_visible
    /\ wheel_options # <<>>
    /\ Len(ledger_df) < MaxLedger
    /\ \E idx \in 0..(Len(wheel_options) - 1), retry \in BOOLEAN :
        LET row == Row("Complication", Dash, Dash, 0, 0, wheel_options[idx + 1])
        IN  /\ retry => lastOp.name = "Spin"
            /\ selected_index' = Some(idx)
            /\ spin_token' = Some("ts")
            /\ ledger_df' = Append(ledger_df, row)
            /\ wheel_options' = WheelAfter(notoriety)
            /\ lastOp' = Op("Spin", retry)
    /\ UNCHANGED <<renown, notoriety, queued_mission, sheet, sheets_up, wheel_visible, call>>

\* _reload as it would be if it took the empty frame that
\* load_ledger_from_sheet returns beside an error.
_reload_ignores_error ==
    /\ ~wheel_visible
    /\ \E err \in BOOLEAN :
           /\ ~sheets_up => err
           /\ lastOp' = Op(IF err THEN "ReloadFailed" ELSE "Reload", FALSE)
           /\ LET remote == IF err THEN <<>> ELSE load_ledger_from_sheet
              IN  /\ ledger_df' = remote
                  /\ renown' = IntOf(SumOf(remote, "renown_gain"))
                  /\ notoriety' = IntOf(SumOf(remote, "notoriety_gain"))
    /\ UNCHANGED <<queued_mission, selected_index, wheel_options, spin_token,
                   sheet, sheets_up, wheel_visible, call>>

\* Refresh from Google Sheets sits on the Ledger tab.  load_ledger_from_sheet
\* returns an error when the sheet is not configured, and may return one on
\* any call when it is (the request raises); _reload then only notifies.
_reload ==
    /\ ~wheel_visible
    /\ \E err \in BOOLEAN :
           /\ ~sheets_up => err
           /\ IF err
              THEN /\ lastOp' = Op("ReloadFailed", FALSE)
                   /\ UNCHANGED <<renown, notoriety, ledger_df>>
              ELSE LET remote == load_ledger_from_sheet
                   IN  /\ lastOp' = Op("Reload", FALSE)
                       /\ ledger_df' = remote
                       /\ renown' = IntOf(SumOf(remote, "renown_gain"))
                       /\ notoriety' = IntOf(SumOf(remote, "notoriety_gain"))
    /\ UNCHANGED <<queued_mission, selected_index, wheel_options, spin_token,
                   sheet, sheets_up, wheel_visible, call>>

\* The user opens the Wheel of Fortune tab: wheel_ui renders.
OpenWheelTab ==
    /\ ~wheel_visible
    /\ wheel_visible' = TRUE
    /\ wheel_options' = _safe_opts(notoriety)
    /\ lastOp' = Op("OpenWheelTab", FALSE)
    /\ UNCHANGED <<renown, notoriety, ledger_df, queued_mission, selected_index,
                   spin_token, sheet, sheets_up, call>>

\* The user opens another tab: wheel_ui is suspended.
LeaveWheelTab ==
    /\ wheel_visible
    /\ wheel_visible' = FALSE
    /\ lastOp' = Op("LeaveWheelTab", FALSE)
    /\ UNCHANGED <<renown, notoriety, ledger_df, queued_mission, selected_index,
                   wheel_options, spin_token, sheet, sheets_up, call>>

Next ==
    \/ _lie_low
    \/ _proxy_charity
    \/ _queue
    \/ _apply
    \/ _append_all
    \/ _spin
    \/ _reload
    \/ OpenWheelTab
    \/ LeaveWheelTab

Spec == Init /\ [][Next]_vars

\* ------------------------------------- the scoring functions, evaluated ----
\* The module-level functions are pure.  A run of SpecFn evaluates one of
\* them on one argument list after another; the session state stays as the
\* bootstrap left it.
session == <<renown, notoriety, ledger_df, queued_mission, selected_index,
             wheel_options, spin_token, sheet, sheets_up, wheel_visible, lastOp>>

Evaluated(fn, args, result) == [fn |-> fn, args |-> args, result |-> result]

\* The function evaluated so far, if any, is fn.
Evaluating(fn) == call.fn \in {"none", fn}

\* Totals from -1 to MaxTotal points in steps of half a point, in cents.
TierTotals == {50 * k : k \in -2..(2 * MaxTotal)}

eval_current_tier ==
    /\ Evaluating("current_tier")
    /\ \E total \in TierTotals :
           call' = Evaluated("current_tier", <<total>>,
                             current_tier(total, NOTORIETY_THRESH))
    /\ UNCHANGED session

\* Lists of up to two Ops modifiers.
OpsLists ==
    {<<>>} \cup {<<a>> : a \in -MaxOps..MaxOps}
           \cup {<<a, b>> : a \in -MaxOps..MaxOps, b \in -MaxOps..MaxOps}

eval_compute_base_score ==
    /\ Evaluating("compute_base_score")
    /\ \E BI \in 0..MaxBI, EB \in -MaxEB..MaxEB, OQM_list \in OpsLists :
           call' = Evaluated("compute_base_score", <<BI, EB, OQM_list>>,
                             compute_base_score(BI, EB, OQM_list))
    /\ UNCHANGED session

\* Magnitudes: levels from -1 to MaxLevel and spends around the band edges.
Magnitudes == (-1..MaxLevel) \cup {-5, 24, 25, 49, 50, 99, 100, 199, 200, 500}

MagnitudeKey(arc) ==
    CASE arc = "Help the Poor" -> "spend"
      [] arc = "Sabotage Evil" -> "impact_level"
      [] arc = "Expose Corruption" -> "expose_level"

\* The inputs hold the archetype's magnitude, or nothing at all.
eval_compute_BI ==
    /\ Evaluating("compute_BI")
    /\ \E arc \in Arcs, magnitude \in Magnitudes, given \in BOOLEAN :
           LET inputs == IF given THEN (MagnitudeKey(arc) :> magnitude) ELSE <<>>
           IN  call' = Evaluated("compute_BI", <<arc, given, magnitude>>,
                                 compute_BI(arc, inputs))
    /\ UNCHANGED session

eval_renown_from_score ==
    /\ Evaluating("renown_from_score")
    /\ \E base \in 0..MaxBase, arc \in Arcs :
           call' = Evaluated("renown_from_score", <<base, arc>>,
                             renown_from_score(base, arc))
    /\ UNCHANGED session

\* The result bucket as _arc_params takes it from the roll slider and the
\* two crit checkboxes; rolls from -RollMargin to 30 + RollMargin.
eval_eb_from_roll ==
    /\ Evaluating("_eb_from_roll")
    /\ \E roll \in (0 - RollMargin)..(30 + RollMargin),
             nat20 \in BOOLEAN, nat1 \in BOOLEAN :
           LET input == [DefaultInputs EXCEPT !.roll = roll, !.nat20 = nat20,
                                              !.nat1 = nat1]
           IN  call' = Evaluated("_eb_from_roll", <<roll, nat20, nat1>>,
                                 _arc_params(input).eb)
    /\ UNCHANGED session

eval_heat_multiplier ==
    /\ Evaluating("heat_multiplier")
    /\ \E n \in -1..MaxHeat :
           call' = Evaluated("heat_multiplier", <<n>>, heat_multiplier(100 * n))
    /\ UNCHANGED session

eval_notoriety_gain ==
    /\ Evaluating("notoriety_gain")
    /\ \E cat_base \in -2..MaxCat, EI \in -1..MaxEI, n \in -1..MaxHeat :
           call' = Evaluated("notoriety_gain", <<cat_base, EI, n>>,
                             notoriety_gain(cat_base, EI, 100 * n))
    /\ UNCHANGED session

InitFn == Init /\ ~sheets_up

NextFn ==
    \/ eval_current_tier
    \/ eval_compute_base_score
    \/ eval_compute_BI
    \/ eval_renown_from_score
    \/ eval_eb_from_roll
    \/ eval_heat_multiplier
    \/ eval_notoriety_gain

SpecFn == InitFn /\ [][NextFn]_vars

\* -------------------------------------------------------------- claims ----
Last(seq) == seq[Len(seq)]

\* The columns of a row the claims speak of.
Core(row) ==
    [archetype |-> row.archetype, renown_gain |-> row.renown_gain,
     notoriety_gain |-> row.notoriety_gain, complication |-> row.complication]

IsPrefixCore(a, b) ==
    /\ Len(a) <= Len(b)
    /\ \A i \in 1..Len(a) : Core(a[i]) = Core(b[i])

\* The fold of notoriety_gain in ledger order, clamped to >= 0 after each row.
RECURSIVE NotorietyFold(_, _)
NotorietyFold(rows, acc) ==
    IF rows = <<>> THEN acc
    ELSE NotorietyFold(Tail(rows), Max(0, acc + rows[1].notoriety_gain))

\* C1: a spin delivered a second time (a double click or a resend of
\* spin_clicked) appends no second Complication record and leaves the drawn
\* option as the first delivery chose it.
C1_SpinIdempotent ==
    [][(lastOp'.name = "Spin" /\ lastOp'.retry)
          => (ledger_df' = ledger_df /\ selected_index' = selected_index)]_vars

\* C2: the Notoriety total is never negative, and it is exactly 0 whenever
\* the notoriety deltas recorded in the ledger sum to a negative value.
C2_NotorietyFloor ==
    /\ notoriety >= 0
    /\ SumOf(ledger_df, "notoriety_gain") < 0 => notoriety = 0

\* C3: the totals never drift from the ledger: Renown is the sum of
\* renown_gain over the rows, Notoriety the clamped fold of notoriety_gain.
C3_TotalsFollowLedger ==
    /\ renown = SumOf(ledger_df, "renown_gain")
    /\ notoriety = NotorietyFold(ledger_df, 0)

\* C4: the ledger is append-only: every step leaves the rows it held in
\* place, unchanged, at the front of the ledger.
C4_LedgerAppendOnly == [][IsPrefixCore(ledger_df, ledger_df')]_vars

\* C5 as stated: with the external store unavailable, Apply, Lie Low and
\* Proxy Charity change neither the ledger, nor the totals, nor the queue.
C5_NoMutationWhenUnavailable ==
    [][(lastOp'.name \in {"Apply", "LieLow", "ProxyCharity"} /\ ~sheets_up)
          => UNCHANGED <<ledger_df, renown, notoriety, queued_mission>>]_vars

\* C5 as amended: with the external store unavailable the failure is
\* ignored: the handler appends its one record to the local ledger and
\* updates the totals by that record's deltas together with it (Notoriety
\* floored at 0), and Apply clears the queue.
C5_SoftFailUpdatesTogether ==
    [][(/\ lastOp'.name \in {"Apply", "LieLow", "ProxyCharity"}
        /\ ~sheets_up
        /\ lastOp'.name = "Apply" => queued_mission # None)
          => /\ Len(ledger_df') = Len(ledger_df) + 1
             /\ SubSeq(ledger_df', 1, Len(ledger_df)) = ledger_df
             /\ renown' = renown + Last(ledger_df').renown_gain
             /\ notoriety' = Max(0, notoriety + Last(ledger_df').notoriety_gain)
             /\ IF lastOp'.name = "Apply"
                THEN /\ queued_mission' = None
                     /\ Last(ledger_df').renown_gain = queued_mission[1].renown_gain
                     /\ Last(ledger_df').notoriety_gain = queued_mission[1].notoriety_gain
                ELSE queued_mission' = queued_mission]_vars

\* A mission has been applied while the store was unavailable.
C5_Witness ==
    /\ lastOp.name = "Apply"
    /\ ~sheets_up
    /\ queued_mission = None
    /\ Len(ledger_df) = 1
    /\ ledger_df[1].archetype \in Arcs
    /\ notoriety = 900
    /\ sheet = <<>>

\* C6: a spin appends exactly one Complication record with both deltas 0
\* and the text of the option at the chosen index of the option table of
\* the heat band at spin time; the totals and the queue are unchanged.
C6_SpinRecord ==
    [][lastOp'.name = "Spin"
          => /\ wheel_options = _safe_opts(notoriety)
             /\ selected_index' # None
             /\ selected_index'[1] \in 0..(Len(wheel_options) - 1)
             /\ ledger_df' = Append(ledger_df,
                    Row("Complication", Dash, Dash, 0, 0,
                        wheel_options[selected_index'[1] + 1]))
             /\ UNCHANGED <<renown, notoriety, queued_mission>>]_vars

\* A spin has just logged the second option of the Low table.
C6_Witness ==
    /\ lastOp.name = "Spin"
    /\ selected_index = Some(1)
    /\ Last(ledger_df).archetype = "Complication"
    /\ Last(ledger_df).complication = "Low 2"

\* C7: the chosen index is unset or a valid index into the active option
\* table.
C7_IndexInRange ==
    selected_index = None
        \/ (0 <= selected_index[1] /\ selected_index[1] < Len(wheel_options))

C9_RecordedDeltaIsChange ==
    [][lastOp'.name \in {"LieLow", "ProxyCharity"}
          => Last(ledger_df').notoriety_gain = notoriety' - notoriety]_vars

\* The heat multiplier of a total: 1 + 0.08 per tier reached, in hundredths.
TierScale(n) ==
    CASE n < 500 -> 100
      [] n >= 500 /\ n < 1000 -> 108
      [] n >= 1000 /\ n < 1500 -> 116
      [] n >= 1500 /\ n < 2000 -> 124
      [] n >= 2000 /\ n < 2500 -> 132
      [] n >= 2500 /\ n < 3000 -> 140
      [] OTHER -> 148

\* C10 as stated: from total 9, applying a queued notoriety gain of 6 makes
\* the total 15 and the multiplier of the next queued mission 1.25.
C10_HeatEscalationTo125 ==
    [][(/\ lastOp'.name = "Apply"
        /\ queued_mission # None
        /\ notoriety = 900
        /\ queued_mission[1].notoriety_gain = 600)
          => (notoriety' = 1500 /\ heat_scale(notoriety') = 125)]_vars

\* C10 as amended: Apply adds exactly the queued gains, so from total 9 a
\* queued notoriety gain of 6 makes the total 15; the next Queue scales by
\* the multiplier of the total it finds, 1 + 0.08 per tier, which is 1.24 at
\* 15 (neither 1.25 nor 1.0).
C10_HeatEscalation ==
    [][/\ (lastOp'.name = "Apply" /\ queued_mission # None)
            => /\ notoriety' = notoriety + queued_mission[1].notoriety_gain
               /\ renown' = renown + queued_mission[1].renown_gain
               /\ (notoriety = 900 /\ queued_mission[1].notoriety_gain = 600)
                     => (notoriety' = 1500 /\ heat_scale(notoriety') = 124)
       /\ lastOp'.name = "Queue"
            => /\ queued_mission' # None
               /\ LET q == queued_mission'[1]
                  IN  \E nat20 \in BOOLEAN, nat1 \in BOOLEAN :
                          q.notoriety_gain =
                              NotorietyPointsScaled(
                                  q.EI_breakdown.gold, q.EI_breakdown.missions_so_far,
                                  q.archetype, q.EI_breakdown.impact,
                                  q.EI_breakdown.exposure, q.OQM, q.EB,
                                  TierScale(notoriety), nat20, nat1)]_vars

\* After 9 + 6 = 15 the next mission has been queued: its gain 6.71 is the
\* one the multiplier 1.24 gives.
C10_Witness ==
    /\ lastOp.name = "Queue"
    /\ notoriety = 1500
    /\ Len(ledger_df) = 2
    /\ ledger_df[1].notoriety_gain = 900
    /\ ledger_df[2].notoriety_gain = 600
    /\ queued_mission # None
    /\ queued_mission[1].archetype = "Help the Poor"
    /\ queued_mission[1].notoriety_gain = 671

\* C11: every Lie Low or Proxy Charity appends exactly one Adjustment row
\* with renown delta 0; Lie Low lowers the Notoriety total by 2 when the
\* total before it is >= 10 and by 1 otherwise, Proxy Charity by 1, each
\* floored at 0; the Renown total and the queued mission are unchanged.  The
\* handler does so whether or not the sheet takes the row.
C11_HeatButtons ==
    [][lastOp'.name \in {"LieLow", "ProxyCharity"}
          => LET drop == IF lastOp'.name = "LieLow" /\ notoriety >= 1000
                         THEN 200 ELSE 100
             IN  /\ Len(ledger_df') = Len(ledger_df) + 1
                 /\ SubSeq(ledger_df', 1, Len(ledger_df)) = ledger_df
                 /\ Last(ledger_df').archetype =
                        (IF lastOp'.name = "LieLow" THEN "Adjustment: Lie Low"
                         ELSE "Adjustment: Proxy Charity")
                 /\ Last(ledger_df').renown_gain = 0
                 /\ notoriety' = (IF notoriety - drop >= 0 THEN notoriety - drop ELSE 0)
                 /\ UNCHANGED <<renown, queued_mission>>]_vars

\* Lie Low has just taken 2 points off a total of 13.86.
C11_Witness ==
    /\ lastOp.name = "LieLow"
    /\ notoriety = 1186
    /\ Len(ledger_df) = 2
    /\ ledger_df[2].archetype = "Adjustment: Lie Low"
    /\ ledger_df[2].notoriety_gain = -200

\* C12: on the ladder [5,10,15,20,25,30] current_tier(total) is the count
\* of thresholds at or below total: 0 at 4, 1 at 5, 5 at 29, 6 at 30; and a
\* larger total never has a smaller tier.
C12_TierCountsThresholds ==
    [][call'.fn = "current_tier"
          => LET total == call'.args[1]
                 tier == call'.result
             IN  /\ tier = Cardinality({t \in {500, 1000, 1500, 2000, 2500, 3000} :
                                           t <= total})
                 /\ total = 400 => tier = 0
                 /\ total = 500 => tier = 1
                 /\ total = 2900 => tier = 5
                 /\ total = 3000 => tier = 6
                 /\ (call.fn = "current_tier" /\ call.args[1] <= total)
                        => call.result <= tier]_vars

\* current_tier(30) has been evaluated: tier 6.
C12_Witness == call = Evaluated("current_tier", <<3000>>, 6)

\* One argument list of compute_base_score is at most another, input by input.
BaseScoreArgsLeq(a, b) ==
    /\ a[1] <= b[1]
    /\ a[2] <= b[2]
    /\ Len(a[3]) = Len(b[3])
    /\ \A i \in 1..Len(a[3]) : a[3][i] <= b[3][i]

\* C13: compute_base_score lies in 1..7, the Ops modifiers count with their
\* sum clamped to -2..+2, and raising an input never lowers the result.
C13_BaseScoreClamped ==
    [][call'.fn = "compute_base_score"
          => LET BI == call'.args[1]
                 EB == call'.args[2]
                 ops == SumList(call'.args[3])
                 opsClamped == IF ops > 2 THEN 2 ELSE IF ops < -2 THEN -2 ELSE ops
                 raw == BI + EB + opsClamped
             IN  /\ call'.result \in 1..7
                 /\ call'.result = (IF raw < 1 THEN 1 ELSE IF raw > 7 THEN 7 ELSE raw)
                 /\ (call.fn = "compute_base_score"
                        /\ BaseScoreArgsLeq(call.args, call'.args))
                        => call.result <= call'.result]_vars

\* compute_base_score(3, 0, [2, 2]) has been evaluated: the Ops sum 4 counts
\* as 2.
C13_Witness == call = Evaluated("compute_base_score", <<3, 0, <<2, 2>> >>, 5)

\* C14: compute_BI returns a value in 1..5 for every archetype and every
\* magnitude, also out of range, and a larger magnitude never gives a
\* smaller value.
C14_BaseImpactBounded ==
    [][call'.fn = "compute_BI"
          => /\ call'.result \in 1..5
             /\ (/\ call.fn = "compute_BI"
                 /\ call.args[1] = call'.args[1]
                 /\ call.args[2] /\ call'.args[2]
                 /\ call.args[3] <= call'.args[3])
                    => call.result <= call'.result]_vars

\* C15: for base scores 1..7 renown_from_score is base times 1.0 / 1.5 / 2.0
\* with a half rounded up: 5 for base 3 of Sabotage Evil.
C15_RenownHalfUp ==
    [][(call'.fn = "renown_from_score" /\ call'.args[1] \in 1..7)
          => LET halves == call'.args[1] * (CASE call'.args[2] = "Help the Poor" -> 2
                                              [] call'.args[2] = "Sabotage Evil" -> 3
                                              [] OTHER -> 4)
             IN  /\ call'.result = (halves + 1) \div 2
                 /\ 2 * call'.result >= halves]_vars

\* C16: the result bucket lies in -3..+3 for every roll, never falls when
\* the roll rises, is 3 whenever nat20 is set, and does not depend on nat1.
C16_ResultBucket ==
    [][call'.fn = "_eb_from_roll"
          => /\ call'.result \in -3..3
             /\ call'.args[2] => call'.result = 3
             /\ (/\ call.fn = "_eb_from_roll"
                 /\ call.args[2] = call'.args[2]
                 /\ call.args[1] <= call'.args[1])
                    => call.result <= call'.result
             /\ (/\ call.fn = "_eb_from_roll"
                 /\ call.args[1] = call'.args[1]
                 /\ call.args[2] = call'.args[2])
                    => call.result = call'.result]_vars

\* Roll 40 without nat20 and with nat1 has been evaluated: bucket 3, not 5.
C16_Witness == call = Evaluated("_eb_from_roll", <<40, FALSE, TRUE>>, 3)

\* C17: heat_multiplier is 1.0 below 10, 1.25 from 10 and 1.5 from 20;
\* notoriety_gain is never negative and, for the same cat_base and EI,
\* never smaller at a higher standing total.
C17_HeatFeedbackMonotone ==
    [][/\ call'.fn = "heat_multiplier"
            => call'.result = (IF call'.args[1] < 10 THEN 100
                               ELSE IF call'.args[1] < 20 THEN 125 ELSE 150)
       /\ call'.fn = "notoriety_gain"
            => /\ call'.result >= 0
               /\ (/\ call.fn = "notoriety_gain"
                   /\ call.args[1] = call'.args[1]
                   /\ call.args[2] = call'.args[2]
                   /\ call.args[3] <= call'.args[3])
                      => call.result <= call'.result]_vars

\* notoriety_gain(-2, 0, 20) has been evaluated: -2 * 1.5 is floored at 0.
C17_Witness == call = Evaluated("notoriety_gain", <<-2, 0, 20>>, 0)

\* C18: a queued mission is applied at most once: Apply with a queued
\* mission adds its gains to the totals, appends exactly one mission row and
\* clears the queue, which only Queue fills again; Apply with nothing queued
\* leaves the ledger and both totals unchanged.
C18_AppliedAtMostOnce ==
    [][/\ lastOp'.name = "Apply"
            => IF queued_mission = None
               THEN UNCHANGED <<ledger_df, renown, notoriety, queued_mission>>
               ELSE /\ Len(ledger_df') = Len(ledger_df) + 1
                    /\ SubSeq(ledger_df', 1, Len(ledger_df)) = ledger_df
                    /\ Last(ledger_df').archetype = queued_mission[1].archetype
                    /\ Last(ledger_df').renown_gain = queued_mission[1].renown_gain
                    /\ Last(ledger_df').notoriety_gain = queued_mission[1].notoriety_gain
                    /\ renown' = renown + queued_mission[1].renown_gain
                    /\ notoriety' = notoriety + queued_mission[1].notoriety_gain
                    /\ queued_mission' = None
       /\ (queued_mission' # None /\ queued_mission' # queued_mission)
            => lastOp'.name = "Queue"]_vars

\* The one queued mission of the session has been applied, with the sheet
\* up; a second Apply finds the queue empty and ends in this same state.
C18_Witness ==
    /\ lastOp.name = "Apply"
    /\ sheets_up
    /\ queued_mission = None
    /\ Len(ledger_df) = 1
    /\ ledger_df[1].archetype = "Expose Corruption"
    /\ renown = ledger_df[1].renown_gain
    /\ notoriety = 1386
    /\ Len(sheet) = 1

\* The columns of the rows of a ledger or of the sheet that the claims speak of.
Cores(rows) == [i \in 1..Len(rows) |-> Core(rows[i])]

\* C19: with the sheet reachable every local ledger row has been appended
\* to the sheet exactly once, so the sheet holds the ledger's rows and a
\* Reload yields the same ledger and the same totals.
C19_SheetMirrorsLedger ==
    [][sheets_up
          => /\ Cores(sheet') = Cores(ledger_df')
             /\ lastOp'.name = "Reload"
                    => /\ Cores(ledger_df') = Cores(ledger_df)
                       /\ renown' = renown
                       /\ notoriety' = notoriety]_vars

\* The rows of the ledger that log a spin.
ComplicationRows == {i \in 1..Len(ledger_df) : ledger_df[i].archetype = "Complication"}

\* C20: whenever wheel_result displays a spin result while the ledger holds
\* a Complication row, the text displayed, the option at selected_index of
\* wheel_options, is the text stored in the most recent Complication row.
C20_ResultMatchesLedger ==
    (/\ wheel_visible
     /\ selected_index # None
     /\ wheel_options # <<>>
     /\ selected_index[1] < Len(wheel_options)
     /\ ComplicationRows # {})
        => \E i \in ComplicationRows :
               /\ \A j \in ComplicationRows : j <= i
               /\ ledger_df[i].complication = wheel_options[selected_index[1] + 1]

\* C21: a Reload that fails to read the sheet leaves the ledger and both
\* totals unchanged; a Reload that succeeds replaces the ledger by the
\* sheet's rows and sets the totals from them.
C21_ReloadFailureKeepsState ==
    [][/\ lastOp'.name = "ReloadFailed"
            => UNCHANGED <<ledger_df, renown, notoriety>>
       /\ lastOp'.name = "Reload"
            => /\ Cores(ledger_df') = Cores(sheet)
               /\ renown' = IntOf(SumOf(sheet, "renown_gain"))
               /\ notoriety' = IntOf(SumOf(sheet, "notoriety_gain"))
       /\ ~sheets_up => lastOp'.name # "Reload"]_vars

\* A Reload has failed on a reachable sheet that holds one row while the
\* ledger holds that row and a spin's.
C21_Witness ==
    /\ lastOp.name = "ReloadFailed"
    /\ sheets_up
    /\ Len(sheet) = 1
    /\ Len(ledger_df) = 2
    /\ ledger_df[2].archetype = "Complication"
    /\ notoriety = 1386

====
